---- MODULE Spec2Model ----
(***************************************************************************)
(* Model of kaktus_dobijecka_extractor.py: the text resolvers (date and    *)
(* hour range), the article parser, the aggregator and main.               *)
(*                                                                         *)
(* A text is a sequence of characters; a character is a one-element string *)
(* for ASCII and a named token for the others: "c_caron" is U+010D,        *)
(* "a_acute" U+00E1, "z_caron" U+017E, "i_acute" U+00ED, "e_caron" U+011B, *)
(* "NBSP" U+00A0 (category Zs), "ZWSP" U+200B (category Cf), "\t" U+0009.  *)
(***************************************************************************)
EXTENDS Integers, Sequences, FiniteSets, TLC

(***************************************************************************)
(* Characters and character classes of Python's re module.                 *)
(***************************************************************************)
Digits == <<"0", "1", "2", "3", "4", "5", "6", "7", "8", "9">>

\* \d
DigitClass == {Digits[i] : i \in 1..Len(Digits)}

\* \s (after category-C and category-Z characters, the ones str.isspace knows)
SpaceClass == {" ", "\t", "NBSP"}

\* unicodedata.category(char)[0] in ("C", "Z")
ControlOrSeparator == {" ", "\t", "NBSP", "ZWSP"}

\* the upper-case letters of the texts and what re.IGNORECASE folds them to
UpperCase == {"O", "D", "M", "S", "F"}

Lower(c) ==
    CASE c = "O" -> "o"
      [] c = "D" -> "d"
      [] c = "M" -> "m"
      [] c = "S" -> "s"
      [] c = "F" -> "f"
      [] OTHER -> c

\* int() of a digit
DigitVal(c) == CHOOSE i \in 0..9 : Digits[i + 1] = c

RECURSIVE ToInt(_)
\* int() of a string of digits
ToInt(ds) ==
    IF ds = <<>> THEN 0
    ELSE 10 * ToInt(SubSeq(ds, 1, Len(ds) - 1)) + DigitVal(ds[Len(ds)])

(***************************************************************************)
(* Regular expressions as re.search runs them: a pattern is a list of      *)
(* alternatives, an alternative a list of items, and the matcher tries     *)
(* start positions left to right, alternatives in order and each greedy    *)
(* quantifier from its longest repetition down (backtracking).             *)
(*   rep:     cls{lo,hi}, hi = -1 for unbounded; grp > 0 captures          *)
(*   optgrp:  (cls{n})?  as capture group grp                              *)
(*   neglook: (?!sub)                                                      *)
(***************************************************************************)
Rep(cls, lo, hi, grp) ==
    [kind |-> "rep", cls |-> cls, lo |-> lo, hi |-> hi, grp |-> grp, sub |-> <<>>]

Ch(c) == Rep({c}, 1, 1, 0)

Lit(text) == [i \in 1..Len(text) |-> Ch(text[i])]

OptGrp(cls, n, grp) ==
    [kind |-> "optgrp", cls |-> cls, lo |-> n, hi |-> n, grp |-> grp, sub |-> <<>>]

NegLook(sub) ==
    [kind |-> "neglook", cls |-> {}, lo |-> 0, hi |-> 0, grp |-> 0, sub |-> sub]

NoMatch == [ok |-> FALSE]

NoGroups == <<<<>>, <<>>, <<>>>>

InClass(cls, ic, c) ==
    IF ic THEN \E x \in cls : Lower(x) = Lower(c) ELSE c \in cls

RECURSIVE RunLength(_, _, _, _)
\* how many characters of s from pos on are in cls
RunLength(cls, ic, s, pos) ==
    IF pos <= Len(s) /\ InClass(cls, ic, s[pos])
    THEN 1 + RunLength(cls, ic, s, pos + 1)
    ELSE 0

Capture(caps, grp, text) ==
    IF grp = 0 THEN caps ELSE [caps EXCEPT ![grp] = text]

RECURSIVE MatchHere(_, _, _, _, _, _)
RECURSIVE TryCount(_, _, _, _, _, _, _)
\* items k.. of an alternative against s from pos
MatchHere(items, k, s, pos, caps, ic) ==
    IF k > Len(items) THEN [ok |-> TRUE, end |-> pos, caps |-> caps]
    ELSE LET it == items[k]
             avail == RunLength(it.cls, ic, s, pos)
         IN CASE it.kind = "rep" ->
                   LET most == IF it.hi >= 0 /\ avail > it.hi THEN it.hi ELSE avail
                   IN IF most < it.lo THEN NoMatch
                      ELSE TryCount(items, k, s, pos, caps, ic, most)
              [] it.kind = "optgrp" ->
                   LET taken == IF avail >= it.lo
                                THEN MatchHere(items, k + 1, s, pos + it.lo,
                                               Capture(caps, it.grp,
                                                       SubSeq(s, pos, pos + it.lo - 1)),
                                               ic)
                                ELSE NoMatch
                   IN IF taken.ok THEN taken
                      ELSE MatchHere(items, k + 1, s, pos, caps, ic)
              [] it.kind = "neglook" ->
                   IF MatchHere(it.sub, 1, s, pos, caps, ic).ok THEN NoMatch
                   ELSE MatchHere(items, k + 1, s, pos, caps, ic)

\* item k repeated n times, then n - 1 times, ... down to its minimum
TryCount(items, k, s, pos, caps, ic, n) ==
    LET it == items[k]
        r == MatchHere(items, k + 1, s, pos + n,
                       Capture(caps, it.grp, SubSeq(s, pos, pos + n - 1)), ic)
    IN IF r.ok THEN r
       ELSE IF n > it.lo THEN TryCount(items, k, s, pos, caps, ic, n - 1)
       ELSE NoMatch

RECURSIVE MatchAlt(_, _, _, _)
\* the alternatives of p from the a-th on, at pos
MatchAlt(p, a, s, pos) ==
    IF a > Len(p.alts) THEN NoMatch
    ELSE LET r == MatchHere(p.alts[a], 1, s, pos, NoGroups, p.ic)
         IN IF r.ok THEN [ok |-> TRUE, start |-> pos, end |-> r.end, caps |-> r.caps]
            ELSE MatchAlt(p, a + 1, s, pos)

MatchAt(p, s, pos) == MatchAlt(p, 1, s, pos)

RECURSIVE SearchFrom(_, _, _)
SearchFrom(p, s, pos) ==
    IF pos > Len(s) + 1 THEN NoMatch
    ELSE LET r == MatchAt(p, s, pos)
         IN IF r.ok THEN r ELSE SearchFrom(p, s, pos + 1)

\* re.search(p, s)
Search(p, s) == SearchFrom(p, s, 1)

\* "needle in s"
Contains(s, needle) ==
    \E i \in 1..(Len(s) - Len(needle) + 1) : SubSeq(s, i, i + Len(needle) - 1) = needle

(***************************************************************************)
(* The words of the patterns.                                              *)
(***************************************************************************)
w_mezi == <<"m", "e", "z", "i">>
w_v == <<"v">>
w_case == <<"c_caron", "a", "s", "e">>
w_a == <<"a">>
w_az == <<"a", "z_caron">>
w_od == <<"o", "d">>
w_do == <<"d", "o">>
w_stovek == <<"s", "t", "o", "v", "e", "k">>
w_00 == <<"0", "0">>
Sp == <<" ">>
Dot == <<".">>

\* "mezi pátou a osmou"
QuirkPatouOsmou ==
    w_mezi \o Sp \o <<"p", "a_acute", "t", "o", "u">> \o Sp \o w_a \o Sp
           \o <<"o", "s", "m", "o", "u">>

\* "od 10 ráno do 10 večer"
QuirkRanoVecer ==
    w_od \o Sp \o <<"1", "0">> \o Sp \o <<"r", "a_acute", "n", "o">> \o Sp \o w_do \o Sp
         \o <<"1", "0">> \o Sp \o <<"v", "e", "c_caron", "e", "r">>

WsPlus == <<Rep(SpaceClass, 1, -1, 0)>>
WsStar == <<Rep(SpaceClass, 0, -1, 0)>>
Hour(grp) == <<Rep(DigitClass, 1, 2, grp)>>
OptDot == <<Rep({"."}, 0, 1, 0)>>
DotOrColon == <<Rep({".", ":"}, 1, 1, 0)>>
\* až?
AzOpt == Lit(w_a) \o <<Rep({"z_caron"}, 0, 1, 0)>>

\* (\d{1,2})[.:]00\s+až?\s+(\d{1,2})[.:]00  after the prefix
StrictMeziTail ==
    WsPlus \o Hour(1) \o DotOrColon \o Lit(w_00) \o WsPlus \o AzOpt \o WsPlus
           \o Hour(2) \o DotOrColon \o Lit(w_00)

\* (\d{1,2})\.?\s+až?\s+(\d{1,2})\.?  after the prefix
LooseMeziTail ==
    WsPlus \o Hour(1) \o OptDot \o WsPlus \o AzOpt \o WsPlus \o Hour(2) \o OptDot

PrefixMezi == Lit(w_mezi)
PrefixVCase == Lit(w_v) \o WsPlus \o Lit(w_case)

\* r'(?:mezi|v\s+čase)\s+(\d{1,2})[.:]00\s+až?\s+(\d{1,2})[.:]00'
Pattern1 ==
    [alts |-> <<PrefixMezi \o StrictMeziTail, PrefixVCase \o StrictMeziTail>>, ic |-> TRUE]

\* r'(?:mezi|v\s+čase)\s+(\d{1,2})\.?\s+až?\s+(\d{1,2})\.?'
Pattern2 ==
    [alts |-> <<PrefixMezi \o LooseMeziTail, PrefixVCase \o LooseMeziTail>>, ic |-> TRUE]

\* r'od\s+(\d{1,2})[.:]00\s+do\s+(\d{1,2})[.:]00'
Pattern3 ==
    [alts |-> <<Lit(w_od) \o WsPlus \o Hour(1) \o DotOrColon \o Lit(w_00) \o WsPlus
                  \o Lit(w_do) \o WsPlus \o Hour(2) \o DotOrColon \o Lit(w_00)>>,
     ic |-> TRUE]

\* od\s+(\d{1,2})\.?\s+do\s+(\d{1,2})\.?  the fourth pattern up to its lookahead
OdDoLoose ==
    Lit(w_od) \o WsPlus \o Hour(1) \o OptDot \o WsPlus \o Lit(w_do) \o WsPlus
              \o Hour(2) \o OptDot

\* r'od\s+(\d{1,2})\.?\s+do\s+(\d{1,2})\.?(?!\s+stovek)'
Pattern4 ==
    [alts |-> <<OdDoLoose \o <<NegLook(WsPlus \o Lit(w_stovek))>>>>, ic |-> TRUE]

\* the patterns tried in the opposite order
HourPatterns_Reversed == <<Pattern4, Pattern3, Pattern2, Pattern1>>

HourPatterns == <<Pattern1, Pattern2, Pattern3, Pattern4>>

None == [kind |-> "None"]

Hours(b, e) == [kind |-> "hours", hour_begin |-> b, hour_end |-> e]

RECURSIVE HourPatternLoop(_, _, _, _)
\* the two nested for loops: pattern k, source j (1 = title, 2 = description)
HourPatternLoop(k, j, title, description) ==
    IF k > Len(HourPatterns) THEN None
    ELSE IF j > 2 THEN HourPatternLoop(k + 1, 1, title, description)
    ELSE LET source == IF j = 1 THEN title ELSE description
             m == Search(HourPatterns[k], source)
         IN IF m.ok THEN Hours(ToInt(m.caps[1]), ToInt(m.caps[2]))
            ELSE HourPatternLoop(k, j + 1, title, description)

parse_begin_end_hour_from_dobijecka_title_or_description(title, description) ==
    IF Contains(description, QuirkPatouOsmou) THEN Hours(17, 20)
    ELSE IF Contains(description, QuirkRanoVecer) THEN Hours(10, 22)
    ELSE HourPatternLoop(1, 1, title, description)

(***************************************************************************)
(* datetime.date                                                           *)
(***************************************************************************)
Date(y, m, d) == [year |-> y, month |-> m, day |-> d]

IsLeap(y) == (y % 4 = 0) /\ ((y % 100 # 0) \/ (y % 400 = 0))

DaysInMonth(y, m) ==
    IF m = 2 THEN (IF IsLeap(y) THEN 29 ELSE 28)
    ELSE IF m \in {4, 6, 9, 11} THEN 30
    ELSE 31

\* datetime.date(y, m, d) raises ValueError outside these ranges
ValidDate(y, m, d) ==
    /\ y >= 1 /\ y <= 9999
    /\ m >= 1 /\ m <= 12
    /\ d >= 1 /\ d <= DaysInMonth(y, m)

\* a > b on dates
DateAfter(a, b) ==
    \/ a.year > b.year
    \/ a.year = b.year /\ a.month > b.month
    \/ a.year = b.year /\ a.month = b.month /\ a.day > b.day

\* r'(\d{1,2})\.\s*(\d{1,2})\.\s*(\d{4})?'
DatePattern ==
    [alts |-> <<<<Rep(DigitClass, 1, 2, 1)>> \o Lit(Dot) \o WsStar
                  \o <<Rep(DigitClass, 1, 2, 2)>> \o Lit(Dot) \o WsStar
                  \o <<OptGrp(DigitClass, 4, 3)>>>>,
     ic |-> FALSE]

ValueError == [kind |-> "ValueError"]

\* the year of the date: explicit, rolled back to the previous year, or the base year
\* a date without a year always takes the base date's year
ResolveYear_NoRollback(year_text, date_month, base_date) ==
    IF year_text # <<>> THEN ToInt(year_text) ELSE base_date.year

ResolveYear(year_text, date_month, base_date) ==
    IF year_text # <<>> THEN ToInt(year_text)
    ELSE IF date_month > base_date.month THEN base_date.year - 1
    ELSE base_date.year

parse_date_from_dobijecka_description(description, base_date) ==
    LET date_match == Search(DatePattern, description)
    IN IF ~date_match.ok THEN None
       ELSE LET date_day == ToInt(date_match.caps[1])
                date_month == ToInt(date_match.caps[2])
                date_year == ResolveYear(date_match.caps[3], date_month, base_date)
            IN IF ValidDate(date_year, date_month, date_day)
               THEN [kind |-> "date", date |-> Date(date_year, date_month, date_day)]
               ELSE ValueError

\* the two "is None" tests and the returned tuple, given what the resolvers return
DatetimeData(date, begin_end_hour) ==
    IF date.kind # "date" THEN date
    ELSE IF begin_end_hour.kind = "None" THEN None
    ELSE [kind |-> "datetime", date |-> date.date,
          hour_begin |-> begin_end_hour.hour_begin,
          hour_end |-> begin_end_hour.hour_end]

parse_datetime_data_from_dobijecka_title_or_description(title, description, base_date) ==
    DatetimeData(parse_date_from_dobijecka_description(description, base_date),
                 parse_begin_end_hour_from_dobijecka_title_or_description(title, description))

(***************************************************************************)
(* Text extraction from an article element.                                *)
(***************************************************************************)
RECURSIVE CollapseSpaces(_)
\* re.sub(r'\s+', ' ', s)
CollapseSpaces(s) ==
    IF s = <<>> THEN <<>>
    ELSE IF s[1] \in SpaceClass
    THEN <<" ">> \o CollapseSpaces(SubSeq(s, 1 + RunLength(SpaceClass, FALSE, s, 1), Len(s)))
    ELSE <<s[1]>> \o CollapseSpaces(Tail(s))

\* str.strip()
Strip(s) ==
    LET keep == {i \in 1..Len(s) : s[i] \notin SpaceClass}
    IN IF keep = {} THEN <<>>
       ELSE SubSeq(s, CHOOSE i \in keep : \A j \in keep : i <= j,
                      CHOOSE i \in keep : \A j \in keep : i >= j)

unify_control_characters_and_whitespace(input_string) ==
    LET spaced == [i \in 1..Len(input_string) |->
                      IF input_string[i] \in ControlOrSeparator THEN " "
                      ELSE input_string[i]]
    IN Strip(CollapseSpaces(spaced))

\* r'Sdílet\s+na\s+Facebooku', flags=re.IGNORECASE
SharePattern ==
    [alts |-> <<Lit(<<"S", "d", "i_acute", "l", "e", "t">>) \o WsPlus \o Lit(<<"n", "a">>)
                  \o WsPlus \o Lit(<<"F", "a", "c", "e", "b", "o", "o", "k", "u">>)>>,
     ic |-> TRUE]

RECURSIVE RemoveAll(_, _, _)
\* re.sub(p, '', s) from pos on
RemoveAll(p, s, pos) ==
    LET m == SearchFrom(p, s, pos)
    IN IF ~m.ok THEN SubSeq(s, pos, Len(s))
       ELSE SubSeq(s, pos, m.start - 1) \o RemoveAll(p, s, m.end)

\* an article element: its first h3 and first p, each None or the element's text
Elem(text) == [kind |-> "elem", text |-> text]

ArticleElem(h3, p) == [h3 |-> h3, p |-> p]

Raise(what) == [kind |-> "raise", error |-> what]

extract_title_from_article_elem(article_elem) ==
    IF article_elem.h3.kind = "None" THEN Raise("no_title")
    ELSE [kind |-> "text", text |-> unify_control_characters_and_whitespace(article_elem.h3.text)]

extract_description_from_article_elem(article_elem) ==
    IF article_elem.p.kind = "None" THEN Raise("no_description")
    ELSE [kind |-> "text",
          text |-> unify_control_characters_and_whitespace(
                       RemoveAll(SharePattern, article_elem.p.text, 1))]

DobijeckaData(date, hour_begin, hour_end, title, description) ==
    [date |-> date, hour_begin |-> hour_begin, hour_end |-> hour_end,
     title |-> title, description |-> description]

\* the first part of an iteration of the parser's for loop: the title, the
\* description and what the resolvers make of them
ArticleData(datetime_data, title, description) ==
    IF datetime_data.kind = "ValueError" THEN Raise("ValueError")
    ELSE IF datetime_data.kind = "None" THEN None
    ELSE [kind |-> "datetime",
          data |-> DobijeckaData(datetime_data.date, datetime_data.hour_begin,
                                 datetime_data.hour_end, title, description)]

ResolveTexts(title, description, base_date) ==
    IF title.kind = "raise" THEN title
    ELSE IF description.kind = "raise" THEN description
    ELSE ArticleData(parse_datetime_data_from_dobijecka_title_or_description(
                         title.text, description.text, base_date),
                     title.text, description.text)

ResolveArticle(article_elem, base_date) ==
    ResolveTexts(extract_title_from_article_elem(article_elem),
                 extract_description_from_article_elem(article_elem), base_date)

\* the parser without its check of the order of the dates
FinishArticle_Unordered(resolved, base_date) ==
    IF resolved.kind = "raise" THEN resolved
    ELSE IF resolved.kind = "None" THEN [kind |-> "continue"]
    ELSE [kind |-> "accept", data |-> resolved.data]

\* the parser raising on an article the resolvers do not find
FinishArticle_SkipIsFatal(resolved, base_date) ==
    IF resolved.kind = "raise" THEN resolved
    ELSE IF resolved.kind = "None" THEN Raise("not_found")
    ELSE IF DateAfter(resolved.data.date, base_date) THEN Raise("not_retrospective")
    ELSE [kind |-> "accept", data |-> resolved.data]

\* the rest of the iteration: skip, or append and check the order
FinishArticle(resolved, base_date) ==
    IF resolved.kind = "raise" THEN resolved
    ELSE IF resolved.kind = "None" THEN [kind |-> "continue"]
    ELSE IF DateAfter(resolved.data.date, base_date) THEN Raise("not_retrospective")
    ELSE [kind |-> "accept", data |-> resolved.data]

\* one iteration of the parser's for loop: raise, continue (skip) or accept
ParseArticleElem(article_elem, base_date) ==
    FinishArticle(ResolveArticle(article_elem, base_date), base_date)

(***************************************************************************)
(* The aggregator's merge and sort.  date_dobijecka_data_pairs is a dict   *)
(* keyed by date: a function from the dates it holds.                      *)
(***************************************************************************)
\* the comparison without the end hour
do_datetime_data_match_NoHourEnd(self, other) ==
    /\ self.date = other.date
    /\ self.hour_begin = other.hour_begin

do_datetime_data_match(self, other) ==
    /\ self.date = other.date
    /\ self.hour_begin = other.hour_begin
    /\ self.hour_end = other.hour_end

EmptyDict == <<>>

\* the inner loop's body storing every announcement that passes the check
MergeOne_LastWins(pairs, dobijecka_data) ==
    IF /\ dobijecka_data.date \in DOMAIN pairs
       /\ ~do_datetime_data_match(dobijecka_data, pairs[dobijecka_data.date])
    THEN Raise("differ")
    ELSE [kind |-> "pairs",
          pairs |-> [d \in DOMAIN pairs \cup {dobijecka_data.date} |->
                        IF d = dobijecka_data.date THEN dobijecka_data ELSE pairs[d]]]

\* the inner loop's body without the check against the kept announcement
MergeOne_Unchecked(pairs, dobijecka_data) ==
    IF dobijecka_data.date \in DOMAIN pairs
    THEN [kind |-> "pairs", pairs |-> pairs]
    ELSE [kind |-> "pairs", pairs |-> pairs @@ (dobijecka_data.date :> dobijecka_data)]

\* the body of the inner for loop: keep, check against the kept one, or raise
MergeOne(pairs, dobijecka_data) ==
    IF dobijecka_data.date \in DOMAIN pairs
    THEN IF ~do_datetime_data_match(dobijecka_data, pairs[dobijecka_data.date])
         THEN Raise("differ")
         ELSE [kind |-> "pairs", pairs |-> pairs]
    ELSE [kind |-> "pairs", pairs |-> pairs @@ (dobijecka_data.date :> dobijecka_data)]

RECURSIVE MergeList(_, _, _)
\* the inner for loop over one page's list, from its i-th announcement on
MergeList(pairs, list, i) ==
    IF i > Len(list) THEN [kind |-> "pairs", pairs |-> pairs]
    ELSE LET r == MergeOne(pairs, list[i])
         IN IF r.kind = "raise" THEN r ELSE MergeList(r.pairs, list, i + 1)

RECURSIVE SortedByDateAsc(_)
\* the sort without reverse=True
SortedByDateAsc(pairs) ==
    IF DOMAIN pairs = {} THEN <<>>
    ELSE LET earliest == CHOOSE d \in DOMAIN pairs : \A e \in DOMAIN pairs : ~DateAfter(d, e)
         IN <<pairs[earliest]>>
              \o SortedByDateAsc([d \in DOMAIN pairs \ {earliest} |-> pairs[d]])

RECURSIVE SortedByDateDesc(_)
\* sorted(pairs.values(), key=lambda item: item.date, reverse=True): the keys
\* differ, so the order is the one that puts the latest remaining date first
SortedByDateDesc(pairs) ==
    IF DOMAIN pairs = {} THEN <<>>
    ELSE LET latest == CHOOSE d \in DOMAIN pairs : \A e \in DOMAIN pairs : ~DateAfter(e, d)
         IN <<pairs[latest]>>
              \o SortedByDateDesc([d \in DOMAIN pairs \ {latest} |-> pairs[d]])

RECURSIVE AggregateFrom(_, _, _)
\* the outer for loop from the i-th source on, given what the parser returns
\* (or raises) for each source; then the empty check and the sort
AggregateFrom(pairs, results, i) ==
    IF i > Len(results)
    THEN IF DOMAIN pairs = {} THEN Raise("nothing_extracted")
         ELSE [kind |-> "list", list |-> SortedByDateDesc(pairs)]
    ELSE IF results[i].kind = "raise" THEN results[i]
    ELSE LET r == MergeList(pairs, results[i].list, 1)
         IN IF r.kind = "raise" THEN r ELSE AggregateFrom(r.pairs, results, i + 1)

get_aggregated_dobijecka_data(results) == AggregateFrom(EmptyDict, results, 1)

(***************************************************************************)
(* Bounds and inputs.                                                      *)
(***************************************************************************)
\* the most article elements a downloaded page holds
MaxArticles == 2

\* the most fragments a text given to a resolver is made of
MaxFragments == 2

\* the most sources the aggregator is given when it is run on its own
MaxPages == 2

\* datetime.date.today() when the module is loaded
Todays == {Date(2023, 2, 10)}

\* Settings.KAKTUS_DOBIJECKA_NEWS_SOURCES: the base date of each source
KAKTUS_DOBIJECKA_NEWS_SOURCES(today_date) ==
    <<today_date, Date(2022, 5, 24), Date(2020, 9, 25), Date(2020, 8, 15)>>

t_dobijecka == <<"D", "o", "b", "i", "j", "e", "c", "k", "a">>
t_novinka == <<"N", "o", "v", "i", "n", "k", "a">>
t_od_9_do_12 == w_od \o Sp \o <<"9">> \o Sp \o w_do \o Sp \o <<"1", "2">>
t_od_9_do_13 == w_od \o Sp \o <<"9">> \o Sp \o w_do \o Sp \o <<"1", "3">>
t_5_3 == <<"5", ".", " ", "3", ".">>
t_7_3 == <<"7", ".", " ", "3", ".">>
t_share == <<"S", "d", "i_acute", "l", "e", "t", " ", "n", "a", "NBSP",
             "F", "a", "c", "e", "b", "o", "o", "k", "u">>

\* the article elements a page may hold
ArticleElems ==
    { ArticleElem(Elem(t_dobijecka), Elem(t_5_3 \o Sp \o t_od_9_do_12)),
      ArticleElem(Elem(t_dobijecka),
                  Elem(t_share \o <<"\t", "5", ".", "3", ".", "NBSP">> \o w_mezi \o Sp
                         \o <<"9", ".", "0", "0">> \o Sp \o w_az \o Sp
                         \o <<"1", "2", ".", "0", "0", "ZWSP">>)),
      ArticleElem(Elem(t_dobijecka), Elem(t_5_3 \o Sp \o t_od_9_do_13)),
      ArticleElem(Elem(t_od_9_do_12), Elem(t_7_3)),
      ArticleElem(Elem(t_dobijecka),
                  Elem(<<"2", "0", ".", " ", "4", ".", " ", "2", "0", "2", "2">> \o Sp
                         \o t_od_9_do_12)),
      ArticleElem(Elem(t_novinka), Elem(t_novinka)),
      ArticleElem(Elem(t_novinka), Elem(t_5_3)),
      ArticleElem(Elem(t_dobijecka), Elem(<<"3", "1", ".", "4", ".">> \o Sp \o t_od_9_do_12)),
      ArticleElem(None, Elem(t_5_3 \o Sp \o t_od_9_do_12)),
      ArticleElem(Elem(t_dobijecka), None) }

\* the base dates of the sources
SourceDates ==
    UNION {{KAKTUS_DOBIJECKA_NEWS_SOURCES(t)[i] : i \in 1..Len(KAKTUS_DOBIJECKA_NEWS_SOURCES(t))}
             : t \in Todays}

\* the base dates an iteration of the parser's for loop ends with, from those it starts with
NextBaseDates(before) ==
    before \cup {r.data.date :
                    r \in {q \in {ParseArticleElem(a, b) : a \in ArticleElems, b \in before} :
                              q.kind = "accept"}}

RECURSIVE RunningBaseDates(_)
\* the values the parser's base_date takes within n articles of a page
RunningBaseDates(n) ==
    IF n = 0 THEN SourceDates ELSE NextBaseDates(RunningBaseDates(n - 1))

\* for each article element and base date: what the resolvers make of the
\* article and what the iteration of the parser's for loop does
ParseEntry(resolved, base_date) ==
    [resolved |-> resolved, step |-> FinishArticle(resolved, base_date)]

ParseTable ==
    [ab \in ArticleElems \X RunningBaseDates(MaxArticles) |->
        ParseEntry(ResolveArticle(ab[1], ab[2]), ab[2])] @@ <<>>

(***************************************************************************)
(* State.                                                                  *)
(***************************************************************************)
VARIABLES
    pc,                         \* where main is
    today,                      \* datetime.date.today()
    output_dir_path,            \* main's output_dir_path
    src_idx,                    \* the source the outer for loop is at
    base_date,                  \* the parser's running base_date
    articles_left,              \* the article elements the parser has not reached
    dobijecka_data_list,        \* the parser's list
    date_dobijecka_data_pairs,  \* the aggregator's dict
    aggregated_dobijecka_data,  \* what the aggregator returned
    files,                      \* the output files written
    error,                      \* the exception that ended the run, "" if none
    parsed,                     \* ParseTable, computed once when the run starts
    \* history
    downloaded,                 \* the sources fetched
    article_count,              \* len(article_elems) of the page being parsed
    skipped,                    \* the articles of the page the resolvers did not find
    last_article,               \* the article element the parser just processed
    first_seen,                 \* per date, the first announcement the parser accepted
    yielded_dates,              \* the dates of the announcements the parser returned
    \* the resolvers and the aggregator run on their own
    in_title, in_description, in_base_date,
    page_results,               \* what the parser returns or raises for each source
    out_value

vars == <<pc, today, parsed, output_dir_path, src_idx, base_date, articles_left,
          dobijecka_data_list, date_dobijecka_data_pairs, aggregated_dobijecka_data,
          files, error, downloaded, article_count, skipped, last_article, first_seen,
          yielded_dates, in_title, in_description, in_base_date, page_results, out_value>>

runVars == <<today, parsed, output_dir_path, src_idx, base_date, articles_left,
             dobijecka_data_list, date_dobijecka_data_pairs, aggregated_dobijecka_data,
             files, error, downloaded, article_count, skipped, last_article, first_seen,
             yielded_dates>>

resolverVars == <<in_title, in_description, in_base_date, page_results, out_value>>

Sources == KAKTUS_DOBIJECKA_NEWS_SOURCES(today)

ExtractionErrors ==
    {"download", "no_articles", "no_title", "no_description", "not_retrospective",
     "none_parsed", "differ", "nothing_extracted"}

\* an extraction error that is recorded and does not stop the run
Abort_GoOn(what) == pc' = "makedirs" /\ error' = what

Abort(what) == pc' = "aborted" /\ error' = what

ResolversIdle ==
    /\ in_title = <<>>
    /\ in_description = <<>>
    /\ in_base_date = None
    /\ page_results = <<>>
    /\ out_value = [kind |-> "unset"]

Init ==
    /\ pc = "main"
    /\ today \in Todays
    /\ parsed = ParseTable
    /\ output_dir_path = ""
    /\ src_idx = 1
    /\ base_date = None
    /\ articles_left = 0
    /\ dobijecka_data_list = <<>>
    /\ date_dobijecka_data_pairs = EmptyDict
    /\ aggregated_dobijecka_data = <<>>
    /\ files = {}
    /\ error = ""
    /\ downloaded = {}
    /\ article_count = 0
    /\ skipped = 0
    /\ last_article = None
    /\ first_seen = EmptyDict
    /\ yielded_dates = {}
    /\ ResolversIdle

(***************************************************************************)
(* main and the functions it calls, one action per step.                   *)
(***************************************************************************)
\* main: get_output_dir_path(), then get_aggregated_dobijecka_data() begins
GetOutputDirPath ==
    /\ pc = "main"
    /\ \E path \in {"argv[1]", "DEFAULT_OUTPUT_DIR"} : output_dir_path' = path
    /\ pc' = "download"
    /\ UNCHANGED <<today, parsed, src_idx, base_date, articles_left, dobijecka_data_list,
                   date_dobijecka_data_pairs, aggregated_dobijecka_data, files, error,
                   downloaded, article_count, skipped, last_article, first_seen,
                   yielded_dates>>
    /\ UNCHANGED resolverVars

\* the outer for loop reaches a source: download_url, then the parser up to its for loop
DownloadUrl ==
    /\ pc = "download"
    /\ src_idx <= Len(Sources)
    /\ downloaded' = downloaded \cup {src_idx}
    /\ \E ok \in BOOLEAN, n \in 0..MaxArticles :
          IF ~ok THEN
              /\ Abort("download")
              /\ UNCHANGED <<base_date, articles_left, dobijecka_data_list, article_count,
                             skipped>>
          ELSE
              /\ base_date' = Sources[src_idx]
              /\ dobijecka_data_list' = <<>>
              /\ article_count' = n
              /\ articles_left' = n
              /\ skipped' = 0
              /\ IF n = 0 THEN Abort("no_articles")
                 ELSE pc' = "parse" /\ error' = error
    /\ UNCHANGED <<today, parsed, output_dir_path, src_idx, date_dobijecka_data_pairs,
                   aggregated_dobijecka_data, files, last_article, first_seen,
                   yielded_dates>>
    /\ UNCHANGED resolverVars

\* one iteration of the parser's for loop, on the next article element of the page
ParseArticle ==
    /\ pc = "parse"
    /\ articles_left > 0
    /\ \E article_elem \in ArticleElems :
          LET r == parsed[<<article_elem, base_date>>].step
              resolved == parsed[<<article_elem, base_date>>].resolved
          IN /\ last_article' = article_elem
             /\ skipped' = IF resolved.kind = "None" THEN skipped + 1 ELSE skipped
             /\ articles_left' = articles_left - 1
             /\ CASE r.kind = "raise" ->
                       \* the order check comes after the append
                       /\ Abort(r.error)
                       /\ dobijecka_data_list' =
                              IF resolved.kind = "datetime"
                              THEN Append(dobijecka_data_list, resolved.data)
                              ELSE dobijecka_data_list
                       /\ UNCHANGED <<base_date, first_seen>>
                  [] r.kind = "continue" ->
                       /\ UNCHANGED <<pc, error, base_date, dobijecka_data_list, first_seen>>
                  [] r.kind = "accept" ->
                       /\ dobijecka_data_list' = Append(dobijecka_data_list, r.data)
                       /\ base_date' = r.data.date
                       /\ first_seen' = IF r.data.date \in DOMAIN first_seen THEN first_seen
                                        ELSE first_seen @@ (r.data.date :> r.data)
                       /\ UNCHANGED <<pc, error>>
    /\ UNCHANGED <<today, parsed, output_dir_path, src_idx, date_dobijecka_data_pairs,
                   aggregated_dobijecka_data, files, downloaded, article_count,
                   yielded_dates>>
    /\ UNCHANGED resolverVars

\* the parser after its for loop: the empty check and the return
ParseReturn ==
    /\ pc = "parse"
    /\ articles_left = 0
    /\ IF dobijecka_data_list = <<>>
       THEN Abort("none_parsed") /\ UNCHANGED <<yielded_dates, last_article>>
       ELSE /\ pc' = "merge"
            /\ error' = error
            /\ last_article' = None
            /\ yielded_dates' = yielded_dates
                   \cup {dobijecka_data_list[i].date : i \in 1..Len(dobijecka_data_list)}
    /\ UNCHANGED <<today, parsed, output_dir_path, src_idx, base_date, articles_left,
                   dobijecka_data_list, date_dobijecka_data_pairs,
                   aggregated_dobijecka_data, files, downloaded, article_count, skipped,
                   first_seen>>
    /\ UNCHANGED resolverVars

\* the aggregator's inner for loop over the list the parser returned
MergePage ==
    /\ pc = "merge"
    /\ LET r == MergeList(date_dobijecka_data_pairs, dobijecka_data_list, 1)
       IN IF r.kind = "raise"
          THEN Abort(r.error) /\ UNCHANGED <<date_dobijecka_data_pairs, src_idx>>
          ELSE /\ date_dobijecka_data_pairs' = r.pairs
               /\ src_idx' = src_idx + 1
               /\ pc' = "download"
               /\ error' = error
    /\ UNCHANGED <<today, parsed, output_dir_path, base_date, articles_left, dobijecka_data_list,
                   aggregated_dobijecka_data, files, downloaded, article_count, skipped,
                   last_article, first_seen, yielded_dates>>
    /\ UNCHANGED resolverVars

\* the aggregator after its outer for loop: the empty check, the sort and the return
ReturnAggregated ==
    /\ pc = "download"
    /\ src_idx > Len(Sources)
    /\ IF DOMAIN date_dobijecka_data_pairs = {}
       THEN Abort("nothing_extracted") /\ UNCHANGED aggregated_dobijecka_data
       ELSE /\ aggregated_dobijecka_data' = SortedByDateDesc(date_dobijecka_data_pairs)
            /\ pc' = "makedirs"
            /\ error' = error
    /\ UNCHANGED <<today, parsed, output_dir_path, src_idx, base_date, articles_left,
                   dobijecka_data_list, date_dobijecka_data_pairs, files, downloaded,
                   article_count, skipped, last_article, first_seen, yielded_dates>>
    /\ UNCHANGED resolverVars

\* save_dobijecka_data: os.makedirs, then the CSV file, then the JSON file
SaveStep(at, next, written) ==
    /\ pc = at
    /\ \E ok \in BOOLEAN :
          IF ok THEN pc' = next /\ files' = files \cup written /\ error' = error
          ELSE Abort("OSError") /\ UNCHANGED files
    /\ UNCHANGED <<today, parsed, output_dir_path, src_idx, base_date, articles_left,
                   dobijecka_data_list, date_dobijecka_data_pairs,
                   aggregated_dobijecka_data, downloaded, article_count, skipped,
                   last_article, first_seen, yielded_dates>>
    /\ UNCHANGED resolverVars

MakeDirs == SaveStep("makedirs", "save_csv", {})

SaveCsv == SaveStep("save_csv", "save_json", {"dobijecka_data.csv"})

SaveJson == SaveStep("save_json", "done", {"dobijecka_data.json"})

Next ==
    \/ GetOutputDirPath
    \/ DownloadUrl
    \/ ParseArticle
    \/ ParseReturn
    \/ MergePage
    \/ ReturnAggregated
    \/ MakeDirs
    \/ SaveCsv
    \/ SaveJson

Spec == Init /\ [][Next]_vars

(***************************************************************************)
(* The resolvers run on their own, on texts made of a few fragments.       *)
(***************************************************************************)
RECURSIVE Flatten(_)
Flatten(parts) == IF parts = <<>> THEN <<>> ELSE Head(parts) \o Flatten(Tail(parts))

\* the texts made of at most n of the fragments
Texts(fragments, n) ==
    {Flatten(parts) : parts \in UNION {[1..k -> fragments] : k \in 0..n}}

HourFragments ==
    { w_od \o Sp \o <<"2">> \o Sp \o w_do \o Sp \o <<"3">>,
      w_od \o Sp \o <<"2">> \o Sp \o w_do \o Sp \o <<"1", "3">>,
      Dot,
      Sp \o w_stovek,
      <<"M">> \o Tail(w_mezi) \o Sp \o <<"9">> \o Sp \o w_a \o Sp \o <<"1", "2">>,
      w_v \o Sp \o w_case \o Sp \o <<"7", ":", "0", "0">> \o Sp \o w_az \o Sp
          \o <<"1", "0", ":", "0", "0">>,
      w_od \o Sp \o <<"8", ".", "0", "0">> \o Sp \o w_do \o Sp \o <<"1", "1", ".", "0", "0">>,
      QuirkPatouOsmou,
      QuirkRanoVecer,
      <<"M">> \o Tail(QuirkPatouOsmou) }

HourTitles ==
    { <<>>,
      w_od \o Sp \o <<"4">> \o Sp \o w_do \o Sp \o <<"6">>,
      w_mezi \o Sp \o <<"1", "4">> \o Sp \o w_az \o Sp \o <<"1", "6">>,
      w_od \o Sp \o <<"1", "8", ":", "0", "0">> \o Sp \o w_do \o Sp
           \o <<"2", "0", ":", "0", "0">> }

DateFragments ==
    { <<"5", ".", "3", ".">>,
      <<"5", ".", " ", "1", "1", ".">>,
      <<"7", ".", "5", ".">>,
      <<"2", "9", ".", "2", ".">>,
      <<"3", "1", ".", "4", ".">>,
      <<"2", "0", "1", "9">>,
      <<" ", "2", "0", "2", "0">>,
      <<"0", "0", "0", "0">>,
      <<"1", "2">>,
      <<"x">> }

ResolverBaseDates == {Date(2022, 5, 24), Date(2020, 9, 25), Date(2021, 1, 10)}

Unset == [kind |-> "unset"]

RunIdle ==
    /\ today = None
    /\ parsed = <<>>
    /\ output_dir_path = ""
    /\ src_idx = 1
    /\ base_date = None
    /\ articles_left = 0
    /\ dobijecka_data_list = <<>>
    /\ date_dobijecka_data_pairs = EmptyDict
    /\ aggregated_dobijecka_data = <<>>
    /\ files = {}
    /\ error = ""
    /\ downloaded = {}
    /\ article_count = 0
    /\ skipped = 0
    /\ last_article = None
    /\ first_seen = EmptyDict
    /\ yielded_dates = {}

InitHours ==
    /\ pc = "hours"
    /\ RunIdle
    /\ in_title \in HourTitles
    /\ in_description \in Texts(HourFragments, MaxFragments)
    /\ in_base_date = None
    /\ page_results = <<>>
    /\ out_value = Unset

ResolveHours ==
    /\ pc = "hours"
    /\ out_value' = parse_begin_end_hour_from_dobijecka_title_or_description(
                        in_title, in_description)
    /\ pc' = "hours_resolved"
    /\ UNCHANGED <<in_title, in_description, in_base_date, page_results>>
    /\ UNCHANGED runVars

SpecHours == InitHours /\ [][ResolveHours]_vars

InitDate ==
    /\ pc = "date"
    /\ RunIdle
    /\ in_title = <<>>
    /\ in_description \in Texts(DateFragments, MaxFragments)
    /\ in_base_date \in ResolverBaseDates
    /\ page_results = <<>>
    /\ out_value = Unset

ResolveDate ==
    /\ pc = "date"
    /\ out_value' = parse_date_from_dobijecka_description(in_description, in_base_date)
    /\ pc' = "date_resolved"
    /\ UNCHANGED <<in_title, in_description, in_base_date, page_results>>
    /\ UNCHANGED runVars

SpecDate == InitDate /\ [][ResolveDate]_vars

(***************************************************************************)
(* The aggregator run on its own, each source's parse result given.        *)
(***************************************************************************)
\* announcements of two dates; of the earlier date one more with another
\* text and one with another hour_end
OrderPool ==
    { DobijeckaData(Date(2022, 3, 7), 9, 12, <<"a">>, <<"a">>),
      DobijeckaData(Date(2022, 3, 5), 9, 12, <<"a">>, <<"a">>),
      DobijeckaData(Date(2022, 3, 5), 9, 12, <<"b">>, <<"b">>),
      DobijeckaData(Date(2022, 3, 5), 9, 13, <<"a">>, <<"a">>) }

\* what the parser returns: a list, not empty, in retrospective order
ParserLists ==
    {list \in UNION {[1..k -> OrderPool] : k \in 1..MaxArticles} :
        \A i \in 1..Len(list) : \A j \in i..Len(list) : ~DateAfter(list[j].date, list[i].date)}

PageResults == {[kind |-> "list", list |-> list] : list \in ParserLists} \cup {Raise("download")}

InitOrder ==
    /\ pc = "order"
    /\ RunIdle
    /\ in_title = <<>>
    /\ in_description = <<>>
    /\ in_base_date = None
    /\ page_results \in UNION {[1..k -> PageResults] : k \in 1..MaxPages}
    /\ out_value = Unset

Aggregate ==
    /\ pc = "order"
    /\ out_value' = get_aggregated_dobijecka_data(page_results)
    /\ pc' = "aggregated"
    /\ UNCHANGED <<in_title, in_description, in_base_date, page_results>>
    /\ UNCHANGED runVars

SpecOrder == InitOrder /\ [][Aggregate]_vars

(***************************************************************************)
(* Properties.                                                             *)
(***************************************************************************)
Exported == pc \in {"makedirs", "save_csv", "save_json", "done"}

HoursDiffer(x, y) == x.hour_begin # y.hour_begin \/ x.hour_end # y.hour_end

\* an announcement of the list has the date of one produced before it (kept in
\* pairs, or earlier in the list) and another hour_begin or hour_end
ConflictIn(pairs, list) ==
    \E i \in 1..Len(list) :
        \/ /\ list[i].date \in DOMAIN pairs
           /\ HoursDiffer(list[i], pairs[list[i].date])
        \/ \E j \in 1..(i - 1) :
              list[j].date = list[i].date /\ HoursDiffer(list[i], list[j])

C2_OnePerDateSorted ==
    aggregated_dobijecka_data # <<>> =>
        LET result == aggregated_dobijecka_data
        IN /\ {result[i].date : i \in 1..Len(result)} = yielded_dates
           /\ Len(result) = Cardinality(yielded_dates)
           /\ \A i \in 1..Len(result) : \A j \in (i + 1)..Len(result) :
                 DateAfter(result[i].date, result[j].date)

\* the aggregator returned several dates, fewer than the announcements it was given
C2_Witness ==
    /\ Exported
    /\ Len(aggregated_dobijecka_data) >= 3
    /\ \E i \in 1..Len(dobijecka_data_list) :
          dobijecka_data_list[i] \notin
              {aggregated_dobijecka_data[k] : k \in 1..Len(aggregated_dobijecka_data)}

\* C3: the announcement kept for a date, in the dict and in the result, is the
\* first one of that date the parser accepted, title and description included.
C3_FirstSeenWins ==
    /\ \A d \in DOMAIN date_dobijecka_data_pairs :
          d \in DOMAIN first_seen /\ date_dobijecka_data_pairs[d] = first_seen[d]
    /\ \A i \in 1..Len(aggregated_dobijecka_data) :
          aggregated_dobijecka_data[i] = first_seen[aggregated_dobijecka_data[i].date]

\* a page was merged that held an announcement of a kept date with another text
C3_Witness ==
    /\ pc = "download"
    /\ src_idx > 1
    /\ \E i \in 1..Len(dobijecka_data_list) :
          /\ dobijecka_data_list[i].date \in DOMAIN date_dobijecka_data_pairs
          /\ dobijecka_data_list[i] # date_dobijecka_data_pairs[dobijecka_data_list[i].date]

\* what the resolvers made of the article element the parser has just processed
ResolvedNow == parsed[<<last_article', base_date>>].resolved

ArticleStep == pc = "parse" /\ articles_left' = articles_left - 1

\* C4: the running base date starts as the page's base date and becomes the
\* date of each accepted announcement; an article resolved to a date later than
\* the running base date is fatal and one resolved to an equal or earlier date
\* is accepted; so a returned list is in non-increasing date order and starts
\* no later than the page's base date.
C4_RetrospectiveOrder ==
    [][/\ (pc = "download" /\ pc' = "parse") => base_date' = Sources[src_idx]
       /\ (ArticleStep /\ ResolvedNow.kind = "datetime") =>
             IF DateAfter(ResolvedNow.data.date, base_date)
             THEN pc' = "aborted" /\ error' = "not_retrospective"
             ELSE /\ pc' = "parse"
                  /\ base_date' = ResolvedNow.data.date
                  /\ dobijecka_data_list' = Append(dobijecka_data_list, ResolvedNow.data)
       /\ pc' = "merge" =>
             /\ ~DateAfter(dobijecka_data_list'[1].date, Sources[src_idx])
             /\ \A i \in 1..(Len(dobijecka_data_list') - 1) :
                   ~DateAfter(dobijecka_data_list'[i + 1].date, dobijecka_data_list'[i].date)
      ]_vars

\* the parser met a date later than the one it had just accepted
C4_Witness ==
    /\ pc = "aborted"
    /\ error = "not_retrospective"
    /\ dobijecka_data_list # <<>>

\* C5: a matched day and month without a year resolve to the year before the
\* base date's when the month is greater than the base date's month and to the
\* base date's year otherwise; a matched 4-digit year is used as it is;
\* whenever the day, the month and that year are a calendar date.
C5_YearInference ==
    pc = "date_resolved" =>
        LET m == Search(DatePattern, in_description)
        IN m.ok =>
              LET day == ToInt(m.caps[1])
                  month == ToInt(m.caps[2])
                  year == IF m.caps[3] # <<>> THEN ToInt(m.caps[3])
                          ELSE IF month > in_base_date.month THEN in_base_date.year - 1
                          ELSE in_base_date.year
              IN ValidDate(year, month, day) =>
                    out_value = [kind |-> "date", date |-> Date(year, month, day)]

\* a date without a year was rolled back to the year before the base date's
C5_Witness ==
    /\ pc = "date_resolved"
    /\ out_value.kind = "date"
    /\ Search(DatePattern, in_description).caps[3] = <<>>
    /\ out_value.date.month > in_base_date.month
    /\ out_value.date.year = in_base_date.year - 1

\* C6: an article the resolvers do not find (date or hours) is skipped: no
\* error, nothing appended, the running base date unchanged; a page with no
\* article element is fatal, and so is one whose article elements were all
\* skipped.
C6_SkipVersusFatal ==
    [][/\ (ArticleStep /\ ResolvedNow.kind = "None") =>
             /\ pc' = "parse"
             /\ error' = ""
             /\ UNCHANGED <<dobijecka_data_list, base_date>>
       /\ (pc = "download" /\ downloaded' # downloaded /\ error' # "download"
             /\ article_count' = 0) =>
             pc' = "aborted" /\ error' = "no_articles"
       /\ (pc = "parse" /\ articles_left = 0 /\ skipped = article_count) =>
             pc' = "aborted" /\ error' = "none_parsed"
       /\ (pc = "parse" /\ articles_left = 0 /\ skipped < article_count) =>
             pc' = "merge"
      ]_vars

\* a page of several article elements, every one of them skipped
C6_Witness ==
    /\ pc = "aborted"
    /\ error = "none_parsed"
    /\ article_count >= 2
    /\ skipped = article_count

\* C7: the export starts only after every source was fetched, parsed and merged
\* without an error; an extraction error ends the run with no file written and
\* no source after the failing one fetched.
C7_NoPartialOutput ==
    /\ (Exported \/ files # {}) =>
          /\ downloaded = 1..Len(Sources)
          /\ src_idx = Len(Sources) + 1
          /\ yielded_dates = DOMAIN date_dobijecka_data_pairs
          /\ error \notin ExtractionErrors
    /\ error \in ExtractionErrors =>
          /\ pc = "aborted"
          /\ files = {}
          /\ aggregated_dobijecka_data = <<>>
          /\ downloaded \subseteq 1..src_idx

\* an extraction error after announcements were kept, with sources left
C7_Witness ==
    /\ error \in ExtractionErrors
    /\ DOMAIN date_dobijecka_data_pairs # {}
    /\ src_idx < Len(Sources)
    /\ files = {}

PageOrders(n) == {f \in [1..n -> 1..n] : \A i, j \in 1..n : f[i] = f[j] => i = j}

Triples(list) ==
    {<<list[i].date, list[i].hour_begin, list[i].hour_end>> : i \in 1..Len(list)}

SameScheduling(x, y) ==
    \/ x.kind = "raise" /\ y.kind = "raise"
    \/ x.kind = "list" /\ y.kind = "list" /\ Triples(x.list) = Triples(y.list)

Reordered(results, f) == [i \in 1..Len(results) |-> results[f[i]]]

\* C8: with each source's parse result fixed, the aggregator run over the
\* sources in any order fails in every order or returns the same set of
\* (date, hour_begin, hour_end) in every order.
C8_OrderIndependent ==
    pc = "aggregated" =>
        \A f \in PageOrders(Len(page_results)) :
            SameScheduling(out_value, get_aggregated_dobijecka_data(Reordered(page_results, f)))

\* two orders of the same sources return lists that differ (in the text kept)
C8_Witness ==
    /\ pc = "aggregated"
    /\ out_value.kind = "list"
    /\ \E f \in PageOrders(Len(page_results)) :
          get_aggregated_dobijecka_data(Reordered(page_results, f)) # out_value

\* od\s+(\d{1,2})\.?\s+do\s+(\d{1,2})\.?\s+stovek: the phrase whose second hour
\* is followed by whitespace and "stovek"
StovekPhrase == [alts |-> <<OdDoLoose \o WsPlus \o Lit(w_stovek)>>, ic |-> TRUE]

\* C9: where the description holds an "od <hour> do <hour>" phrase whose second
\* hour (one or two digits, with or without a dot) is followed by whitespace
\* and "stovek", the fourth pattern does not match that phrase.
C9_StovekNeverMatches ==
    pc = "hours_resolved" =>
        \A i \in 1..Len(in_description) :
            MatchAt(StovekPhrase, in_description, i).ok
                => ~MatchAt(Pattern4, in_description, i).ok

\* the resolver took hours from a phrase that goes on with "stovek"
C9_Witness ==
    /\ pc = "hours_resolved"
    /\ in_title = <<>>
    /\ in_description = w_od \o Sp \o <<"2">> \o Sp \o w_do \o Sp \o <<"1", "3">>
                           \o Sp \o w_stovek
    /\ out_value = Hours(2, 1)

PatternRule(p, source) ==
    LET m == Search(p, source)
    IN [hit |-> m.ok,
        value |-> IF m.ok THEN Hours(ToInt(m.caps[1]), ToInt(m.caps[2])) ELSE None]

\* the rules in their order: the two overrides, then each pattern on the title
\* and on the description
HourRules(title, description) ==
    << [hit |-> Contains(description, QuirkPatouOsmou), value |-> Hours(17, 20)],
       [hit |-> Contains(description, QuirkRanoVecer), value |-> Hours(10, 22)],
       PatternRule(Pattern1, title), PatternRule(Pattern1, description),
       PatternRule(Pattern2, title), PatternRule(Pattern2, description),
       PatternRule(Pattern3, title), PatternRule(Pattern3, description),
       PatternRule(Pattern4, title), PatternRule(Pattern4, description) >>

\* C10: the hour range is that of the first rule that matches, in the order:
\* the two overrides on the description, then patterns 1 to 4, each on the
\* title before the description; None exactly when no rule matches.
C10_FirstRuleWins ==
    pc = "hours_resolved" =>
        LET rules == HourRules(in_title, in_description)
            hits == {k \in 1..Len(rules) : rules[k].hit}
        IN IF hits = {} THEN out_value = None
           ELSE out_value = rules[CHOOSE k \in hits : \A l \in hits : k <= l].value

\* the second pattern on the description won over the fourth on the title
C10_Witness ==
    /\ pc = "hours_resolved"
    /\ Search(Pattern4, in_title).ok
    /\ ~Search(Pattern2, in_title).ok
    /\ Search(Pattern2, in_description).ok
    /\ ~Search(Pattern1, in_description).ok
    /\ ~Contains(in_description, QuirkPatouOsmou)
    /\ ~Contains(in_description, QuirkRanoVecer)
    /\ out_value = PatternRule(Pattern2, in_description).value
    /\ out_value # PatternRule(Pattern4, in_title).value
====
